---- MODULE Spec2Model ----
(***************************************************************************)
(* Model of flomo2notion.py: the one-way sync of flomo memos into a Notion *)
(* database (Flomo2Notion.sync_to_notion, insert_memo, update_memo).       *)
(*                                                                         *)
(* The run is cut at its collaborator calls (get_memo_list, query_all,     *)
(* pages.create, pages.update, clear_page_content,                         *)
(* uploadSingleFileContent): each call is one step, and each call may      *)
(* raise, which ends the run.  The source service and the destination      *)
(* database are part of the state.                                         *)
(*                                                                         *)
(* Representation:                                                         *)
(*   - a timestamp string "YYYY-MM-DD HH:MM:SS" is the pair <<day, sec>>;  *)
(*     Mktime converts it to epoch seconds; a triple is a string with      *)
(*     text after the seconds, which strptime rejects while the source     *)
(*     still knows its place in the order;                                 *)
(*   - a memo's slug "" stands for a slug that is missing or empty;        *)
(*   - a memo's content is <<>> (absent or empty) or <<v>>, v the HTML     *)
(*     body of one revision of the memo;                                   *)
(*   - a text is a sequence of strings;                                    *)
(*   - tags, pin, source, linked_count, icon and cover are passed through  *)
(*     to the destination and decide nothing; they are left out.           *)
(***************************************************************************)
EXTENDS Integers, Sequences, FiniteSets, TLC

\* ---------------------------------------------------------------- bounds
MaxMemos == 2
PageSize == 1
MaxPre == 1
MaxRuns == 2
MaxEdits == 1
MaxFiles == 2

\* ------------------------------------------------------- program constants
DefaultIntervalDay == 7

\* ----------------------------------------------------------- value domains
Slugs == {"", "a", "b"}
TimeStamps == {<<1, 0>>, <<1, 1>>, <<9, 0>>}
Malformed == <<1, 1, 0>>
MemoTimeStamps == TimeStamps \cup {Malformed}
CreatedAt == <<1, 0>>
Now == <<10, 0>>
Revisions == <<"v0", "v1", "v2">>
EnvValues == {"<unset>", "true", "0"}
DaySeconds == 24 * 60 * 60

VARIABLES
    source,             \* the memos the source service holds, ascending updated_at
    dest,               \* destination database: record handle -> record
    pc,                 \* where the run stands
    memo_list,          \* sync_to_notion: accumulated memos
    latest_updated_at,  \* sync_to_notion: the cursor
    slug_map,           \* sync_to_notion: slug -> record handle
    full_update,        \* sync_to_notion: FULL_UPDATE as parsed
    idx,                \* position of the for loop in memo_list
    page_id,            \* record handle the memo in progress writes to
    calls,              \* collaborator calls issued by the current run
    last_exit,          \* how the latest run ended: "none", "ok", "error"
    runs,               \* number of runs started
    edits,              \* number of source-side edits made
    unchanged,          \* no source-side edit since the latest run began
    succ_run,           \* the current run follows a run that ended ok with full update
                        \* off, and the source is unchanged since that run began
    after_ok,           \* the current run follows a run that ended ok, and the source
                        \* is unchanged since that run began
    normalized          \* what the latest lone call of _safe_md_and_text returned

vars == <<source, dest, pc, memo_list, latest_updated_at, slug_map, full_update,
          idx, page_id, calls, last_exit, runs, edits, unchanged, succ_run, after_ok,
          normalized>>

\* ------------------------------------------------------------------ helpers
Max(S) == CHOOSE x \in S : \A y \in S : y <= x

Min(S) == CHOOSE x \in S : \A y \in S : x <= y

\* time.strptime(s, "%Y-%m-%d %H:%M:%S") accepts s
Parsable(ts) == Len(ts) = 2

\* time.mktime(time.strptime(s, "%Y-%m-%d %H:%M:%S")): epoch seconds
Mktime(ts) == ts[1] * DaySeconds + ts[2]

\* _parse_bool_env(name, default)
ParseBoolEnv(val, default) ==
    IF val = "<unset>" THEN default
    ELSE val \in {"1", "true", "yes", "y", "on"}

\* is_within_n_days(updated_at, n)
IsWithinNDays(ts, n) == Parsable(ts) /\ Mktime(Now) - Mktime(ts) <= n * DaySeconds

\* markdownify(content_html)
Markdownify(content_html) == <<"md", content_html[1]>>

\* html2text.html2text(content_html)
Html2Text(content_html) == <<"text", content_html[1]>>

\* a content that is None or not there; the empty string is <<>>
NoContent == <<"<none>">>

\* not content_html
Falsy(content_html) == content_html = NoContent \/ content_html = <<>>

\* an entry of files that is not a dict
NotADict == [dict |-> FALSE, type |-> "", url |-> ""]

\* the urls of the attachments that have one, whatever their type
RECURSIVE ImgUrls_AnyType(_)
ImgUrls_AnyType(files) ==
    IF files = <<>> THEN <<>>
    ELSE LET f == Head(files)
         IN  IF f.dict /\ f.url # ""
             THEN <<f.url>> \o ImgUrls_AnyType(Tail(files))
             ELSE ImgUrls_AnyType(Tail(files))

\* the urls of the image attachments, in order
RECURSIVE ImgUrls(_)
ImgUrls(files) ==
    IF files = <<>> THEN <<>>
    ELSE LET f == Head(files)
         IN  IF f.dict /\ f.type = "image" /\ f.url # ""
             THEN <<f.url>> \o ImgUrls(Tail(files))
             ELSE ImgUrls(Tail(files))

\* "\n".join(img_urls) if img_urls else "": a text is the sequence of its pieces
RECURSIVE JoinLines(_)
JoinLines(img_urls) ==
    IF img_urls = <<>> THEN <<>>
    ELSE IF Len(img_urls) = 1 THEN <<img_urls[1]>>
    ELSE <<Head(img_urls), "\n">> \o JoinLines(Tail(img_urls))

\* _safe_md_and_text(memo): <<content_md, content_text>>
SafeMdAndText(memo) ==
    IF Falsy(memo.content)
    THEN LET content_md == JoinLines(ImgUrls(memo.files))
         IN  <<content_md, content_md>>
    ELSE <<Markdownify(memo.content), Html2Text(memo.content)>>

\* truncate_string(text): texts below the cap are kept as they are
TruncateString(text) == text

\* ------------------------------------------------------------ source service
\* memos with updated_at > cursor, ascending, at most one page of them
RECURSIVE NewerThan(_, _)
NewerThan(src, cursor) ==
    IF src = <<>> THEN <<>>
    ELSE IF Mktime(Head(src).updated_at) > cursor
         THEN <<Head(src)>> \o NewerThan(Tail(src), cursor)
         ELSE NewerThan(Tail(src), cursor)

\* flomo_api.get_memo_list(authorization, latest_updated_at)
GetMemoList(src, cursor) ==
    LET newer == NewerThan(src, cursor)
    IN  SubSeq(newer, 1, Min({PageSize, Len(newer)}))

\* the source keeps its memos ordered by updated_at
IsSorted(src) ==
    \A i \in 1..(Len(src) - 1) : Mktime(src[i].updated_at) <= Mktime(src[i + 1].updated_at)

\* non-empty slugs are unique in the source
UniqueSlugs(src) ==
    \A i, j \in 1..Len(src) : (i # j /\ src[i].slug # "") => src[i].slug # src[j].slug

\* src with memo k edited: new revision, new updated_at, moved to its place in the order
RECURSIVE InsertSorted(_, _)
InsertSorted(src, m) ==
    IF src = <<>> THEN <<m>>
    ELSE IF Mktime(Head(src).updated_at) <= Mktime(m.updated_at)
         THEN <<Head(src)>> \o InsertSorted(Tail(src), m)
         ELSE <<m>> \o src

RemoveAt(s, k) == SubSeq(s, 1, k - 1) \o SubSeq(s, k + 1, Len(s))

NextRevision(content) ==
    LET k == CHOOSE n \in 1..Len(Revisions) : Revisions[n] = content[1]
    IN  <<Revisions[k + 1]>>

\* --------------------------------------------------------------- destination
\* handles in ascending order: the order of a full scan
RECURSIVE SortedHandles(_)
SortedHandles(S) ==
    IF S = {} THEN <<>>
    ELSE <<Min(S)>> \o SortedHandles(S \ {Min(S)})

\* notion_helper.query_all(page_id): every record of the database
QueryAll(d) ==
    LET hs == SortedHandles(DOMAIN d)
    IN  [n \in 1..Len(hs) |-> [id |-> hs[n], slug |-> d[hs[n]].slug]]

\* notion_utils.get_rich_text_from_result(notion_memo, "slug")
GetRichTextFromResult(notion_memo) == notion_memo.slug

\* the slug_map loop keeping the handle seen first for a slug
RECURSIVE BuildSlugMap_FirstWins(_, _)
BuildSlugMap_FirstWins(notion_memo_list, acc) ==
    IF notion_memo_list = <<>> THEN acc
    ELSE LET notion_memo == Head(notion_memo_list)
             key == GetRichTextFromResult(notion_memo)
         IN  IF key # "" /\ key \notin DOMAIN acc
             THEN BuildSlugMap_FirstWins(Tail(notion_memo_list),
                      [k \in DOMAIN acc \cup {key} |->
                          IF k = key THEN notion_memo.id ELSE acc[k]])
             ELSE BuildSlugMap_FirstWins(Tail(notion_memo_list), acc)

\* the slug_map loop of sync_to_notion
RECURSIVE BuildSlugMap(_, _)
BuildSlugMap(notion_memo_list, acc) ==
    IF notion_memo_list = <<>> THEN acc
    ELSE LET notion_memo == Head(notion_memo_list)
             key == GetRichTextFromResult(notion_memo)
         IN  IF key # ""
             THEN BuildSlugMap(Tail(notion_memo_list),
                      [k \in DOMAIN acc \cup {key} |->
                          IF k = key THEN notion_memo.id ELSE acc[k]])
             ELSE BuildSlugMap(Tail(notion_memo_list), acc)

EmptyMap == [k \in {} |-> 0]

NewHandle(d) == IF DOMAIN d = {} THEN 1 ELSE Max(DOMAIN d) + 1

\* client.pages.create(parent, icon, cover, properties): a new record, no content
PagesCreate(d, properties) ==
    LET h == NewHandle(d)
    IN  [x \in DOMAIN d \cup {h} |->
            IF x = h
            THEN [slug |-> properties.slug, created_at |-> properties.created_at,
                  updated_at |-> properties.updated_at, title |-> properties.title,
                  body |-> <<>>, by |-> "sync"]
            ELSE d[x]]

\* client.pages.update(page_id, properties): the given properties replace the old ones
PagesUpdate(d, h, properties) ==
    [d EXCEPT ![h] =
        [f \in DOMAIN d[h] |-> IF f \in DOMAIN properties THEN properties[f] ELSE d[h][f]]]

\* notion_helper.clear_page_content(page_id)
ClearPageContent(d, h) == [d EXCEPT ![h].body = <<>>]

\* uploader.uploadSingleFileContent(client, content_md, page_id): appends the blocks
UploadSingleFileContent(d, h, content_md) == [d EXCEPT ![h].body = @ \o <<content_md>>]

\* ------------------------------------------------------- insert / update memo
\* insert_memo with the slug property left out of the property set
InsertProperties_NoSlug(memo) ==
    [title |-> TruncateString(SafeMdAndText(memo)[2]),
     slug |-> "",
     created_at |-> memo.created_at,
     updated_at |-> memo.updated_at]

\* insert_memo: properties
InsertProperties(memo) ==
    [title |-> TruncateString(SafeMdAndText(memo)[2]),
     slug |-> memo.slug,
     created_at |-> memo.created_at,
     updated_at |-> memo.updated_at]

\* update_memo rewriting the created-time property as well, from the wrong field
UpdateProperties_WithCreatedAt(memo) ==
    [title |-> TruncateString(SafeMdAndText(memo)[2]),
     created_at |-> memo.updated_at,
     updated_at |-> memo.updated_at]

\* update_memo: properties
UpdateProperties(memo) ==
    [title |-> TruncateString(SafeMdAndText(memo)[2]),
     updated_at |-> memo.updated_at]

\* the for loop without the staleness test: every indexed memo is updated
Decide_NoStaleCheck(memo, smap, full, interval_day) ==
    IF memo.slug \in DOMAIN smap THEN "update" ELSE "insert"

\* the for loop checking staleness whatever FULL_UPDATE says
Decide_IgnoresFullUpdate(memo, smap, full, interval_day) ==
    IF memo.slug \in DOMAIN smap
    THEN IF ~IsWithinNDays(memo.updated_at, interval_day)
         THEN "skip"
         ELSE "update"
    ELSE "insert"

\* the for loop passing over a memo that has no slug
Decide_SkipsEmptySlug(memo, smap, full, interval_day) ==
    IF memo.slug \in DOMAIN smap
    THEN IF ~full /\ ~IsWithinNDays(memo.updated_at, interval_day)
         THEN "skip"
         ELSE "update"
    ELSE IF memo.slug = "" THEN "skip" ELSE "insert"

\* the branch the for loop of sync_to_notion takes for a memo
Decide(memo, smap, full, interval_day) ==
    IF memo.slug \in DOMAIN smap
    THEN IF ~full /\ ~IsWithinNDays(memo.updated_at, interval_day)
         THEN "skip"
         ELSE "update"
    ELSE "insert"

\* the break of the while loop taken whatever the page holds
PagingDone_BreakAlways(new_memo_list) == TRUE

\* the while loop of sync_to_notion ends on an empty page
PagingDone(new_memo_list) == new_memo_list = <<>>

\* the page put in front of the list
Extend_Prepends(list, new_memo_list) == new_memo_list \o list

\* memo_list.extend(new_memo_list)
Extend(list, new_memo_list) == list \o new_memo_list

\* the cursor taken from the page without strptime's check of the format
CursorParses_Always(new_memo_list) == TRUE

\* strptime accepts the updated_at of the last memo of the page
CursorParses(new_memo_list) == Parsable(new_memo_list[Len(new_memo_list)].updated_at)

\* the cursor taken from created_at of the last memo of the page
NextCursor_CreatedAt(new_memo_list) == Mktime(new_memo_list[Len(new_memo_list)].created_at)

\* the cursor after a page: updated_at of its last memo, in epoch seconds
NextCursor(new_memo_list) == Mktime(new_memo_list[Len(new_memo_list)].updated_at)

\* ------------------------------------------------------------ the call log
Call(op, i, h, slug, md, cursor, n) ==
    [op |-> op, i |-> i, h |-> h, slug |-> slug, md |-> md, cursor |-> cursor, n |-> n]

CallPage(cursor, n) == Call("get_memo_list", 0, 0, "", <<>>, cursor, n)

CallQuery(n) == Call("query_all", 0, 0, "", <<>>, 0, n)

CallCreate(i, h, slug) == Call("create", i, h, slug, <<>>, 0, 0)

CallUpdate(i, h) == Call("update", i, h, "", <<>>, 0, 0)

CallClear(i, h) == Call("clear", i, h, "", <<>>, 0, 0)

CallUpload(i, h, md) == Call("upload", i, h, "", md, 0, 0)

WriteOps == {"create", "update", "clear", "upload"}

\* ------------------------------------------------------------ initial state
Memo(slug, ts) ==
    [slug |-> slug, created_at |-> CreatedAt, updated_at |-> ts,
     content |-> <<Revisions[1]>>, files |-> <<>>]

InitMemos == {Memo(s, ts) : s \in Slugs, ts \in MemoTimeStamps}

InitSources ==
    UNION {{src \in [1..n -> InitMemos] : IsSorted(src) /\ UniqueSlugs(src)} : n \in 0..MaxMemos}

\* a record that was in the database before the first run
PreRecord(slug) ==
    [slug |-> slug, created_at |-> CreatedAt, updated_at |-> CreatedAt,
     title |-> Html2Text(<<Revisions[1]>>), body |-> <<Markdownify(<<Revisions[1]>>)>>,
     by |-> "pre"]

InitDests == UNION {[1..n -> {PreRecord(s) : s \in Slugs}] : n \in 0..MaxPre}

\* the locals of sync_to_notion as a run finds them; they do not outlive the run
NoLocals ==
    [memo_list |-> <<>>, latest_updated_at |-> 0, slug_map |-> EmptyMap, idx |-> 1,
     page_id |-> 0, calls |-> <<>>]

Init ==
    /\ source \in InitSources
    /\ dest \in InitDests
    /\ pc = "idle"
    /\ memo_list = NoLocals.memo_list
    /\ latest_updated_at = NoLocals.latest_updated_at
    /\ slug_map = NoLocals.slug_map
    /\ idx = NoLocals.idx
    /\ page_id = NoLocals.page_id
    /\ calls = NoLocals.calls
    /\ full_update = FALSE
    /\ last_exit = "none"
    /\ runs = 0
    /\ edits = 0
    /\ unchanged = TRUE
    /\ succ_run = FALSE
    /\ after_ok = FALSE
    /\ normalized = <<>>

\* ------------------------------------------------------------------ actions
\* sync_to_notion is entered: memo_list = [], latest_updated_at = "0"
StartRun ==
    /\ pc = "idle"
    /\ runs < MaxRuns
    /\ pc' = "paging"
    /\ runs' = runs + 1
    /\ memo_list' = NoLocals.memo_list
    /\ latest_updated_at' = NoLocals.latest_updated_at
    /\ slug_map' = NoLocals.slug_map
    /\ idx' = NoLocals.idx
    /\ page_id' = NoLocals.page_id
    /\ calls' = NoLocals.calls
    /\ unchanged' = TRUE
    /\ succ_run' = (last_exit = "ok" /\ ~full_update /\ unchanged)
    /\ after_ok' = (last_exit = "ok" /\ unchanged)
    /\ UNCHANGED <<source, dest, full_update, last_exit, edits, normalized>>

\* one pass of the while loop: a page request and what follows it; strptime
\* raises ValueError on a malformed updated_at, after the page was appended
FetchPage ==
    /\ pc = "paging"
    /\ LET new_memo_list == GetMemoList(source, latest_updated_at)
           request == CallPage(latest_updated_at, Len(new_memo_list))
       IN  IF PagingDone(new_memo_list)
           THEN /\ pc' = "query"
                /\ calls' = Append(calls, request)
                /\ UNCHANGED <<memo_list, latest_updated_at, last_exit>>
           ELSE IF CursorParses(new_memo_list)
           THEN /\ pc' = "paging"
                /\ calls' = Append(calls, request)
                /\ memo_list' = Extend(memo_list, new_memo_list)
                /\ latest_updated_at' = NextCursor(new_memo_list)
                /\ UNCHANGED last_exit
           ELSE /\ pc' = "idle"
                /\ last_exit' = "ValueError"
                /\ memo_list' = NoLocals.memo_list
                /\ latest_updated_at' = NoLocals.latest_updated_at
                /\ calls' = NoLocals.calls
    /\ UNCHANGED <<source, dest, slug_map, full_update, idx, page_id,
                   runs, edits, unchanged, succ_run, after_ok, normalized>>

\* query_all, the slug_map loop, and the two environment settings
BuildIndex ==
    /\ pc = "query"
    /\ slug_map' = BuildSlugMap(QueryAll(dest), EmptyMap)
    /\ \E val \in EnvValues : full_update' = ParseBoolEnv(val, FALSE)
    /\ calls' = Append(calls, CallQuery(Len(QueryAll(dest))))
    /\ idx' = 1
    /\ pc' = "loop"
    /\ UNCHANGED <<source, dest, memo_list, latest_updated_at, page_id, last_exit,
                   runs, edits, unchanged, succ_run,
                   after_ok, normalized>>

\* the memo the for loop is at, and its branch
AtMemo == pc = "loop" /\ idx <= Len(memo_list)

Branch == Decide(memo_list[idx], slug_map, full_update, DefaultIntervalDay)

\* for loop: the memo is indexed and not refresh-eligible: continue
SkipMemo ==
    /\ AtMemo
    /\ Branch = "skip"
    /\ idx' = idx + 1
    /\ UNCHANGED <<source, dest, pc, memo_list, latest_updated_at, slug_map, full_update,
                   page_id, calls, last_exit, runs, edits, unchanged, succ_run,
                   after_ok, normalized>>

\* insert_memo up to and including pages.create
InsertCreate ==
    /\ AtMemo
    /\ Branch = "insert"
    /\ LET properties == InsertProperties(memo_list[idx])
       IN  /\ dest' = PagesCreate(dest, properties)
           /\ page_id' = NewHandle(dest)
           /\ calls' = Append(calls, CallCreate(idx, NewHandle(dest), properties.slug))
    /\ pc' = "insert_upload"
    /\ UNCHANGED <<source, memo_list, latest_updated_at, slug_map, full_update, idx,
                   last_exit, runs, edits, unchanged, succ_run,
                   after_ok, normalized>>

\* insert_memo: the content upload to the page just created
InsertUpload ==
    /\ pc = "insert_upload"
    /\ LET content_md == SafeMdAndText(memo_list[idx])[1]
       IN  /\ dest' = UploadSingleFileContent(dest, page_id, content_md)
           /\ calls' = Append(calls, CallUpload(idx, page_id, content_md))
    /\ idx' = idx + 1
    /\ pc' = "loop"
    /\ UNCHANGED <<source, memo_list, latest_updated_at, slug_map, full_update, page_id,
                   last_exit, runs, edits, unchanged, succ_run,
                   after_ok, normalized>>

\* update_memo up to and including pages.update
UpdateProps ==
    /\ AtMemo
    /\ Branch = "update"
    /\ LET h == slug_map[memo_list[idx].slug]
       IN  /\ dest' = PagesUpdate(dest, h, UpdateProperties(memo_list[idx]))
           /\ page_id' = h
           /\ calls' = Append(calls, CallUpdate(idx, h))
    /\ pc' = "update_clear"
    /\ UNCHANGED <<source, memo_list, latest_updated_at, slug_map, full_update, idx,
                   last_exit, runs, edits, unchanged, succ_run,
                   after_ok, normalized>>

\* update_memo without the call of clear_page_content
UpdateClear_Omitted ==
    /\ pc = "update_clear"
    /\ pc' = "update_upload"
    /\ UNCHANGED <<source, dest, memo_list, latest_updated_at, slug_map, full_update, idx,
                   page_id, calls, last_exit, runs, edits, unchanged, succ_run,
                   after_ok, normalized>>

\* update_memo removing the page itself where it should empty it
UpdateClear_ArchivesPage ==
    /\ pc = "update_clear"
    /\ dest' = [h \in DOMAIN dest \ {page_id} |-> dest[h]]
    /\ calls' = Append(calls, CallClear(idx, page_id))
    /\ pc' = "update_upload"
    /\ UNCHANGED <<source, memo_list, latest_updated_at, slug_map, full_update, idx,
                   page_id, last_exit, runs, edits, unchanged, succ_run,
                   after_ok, normalized>>

\* update_memo: clear_page_content
UpdateClear ==
    /\ pc = "update_clear"
    /\ dest' = ClearPageContent(dest, page_id)
    /\ calls' = Append(calls, CallClear(idx, page_id))
    /\ pc' = "update_upload"
    /\ UNCHANGED <<source, memo_list, latest_updated_at, slug_map, full_update, idx,
                   page_id, last_exit, runs, edits, unchanged, succ_run,
                   after_ok, normalized>>

\* update_memo: the content upload
UpdateUpload ==
    /\ pc = "update_upload"
    /\ LET content_md == SafeMdAndText(memo_list[idx])[1]
       IN  /\ dest' = UploadSingleFileContent(dest, page_id, content_md)
           /\ calls' = Append(calls, CallUpload(idx, page_id, content_md))
    /\ idx' = idx + 1
    /\ pc' = "loop"
    /\ UNCHANGED <<source, memo_list, latest_updated_at, slug_map, full_update, page_id,
                   last_exit, runs, edits, unchanged, succ_run,
                   after_ok, normalized>>

\* the for loop is exhausted: sync_to_notion returns
Finish ==
    /\ pc = "loop"
    /\ idx > Len(memo_list)
    /\ pc' = "idle"
    /\ last_exit' = "ok"
    /\ memo_list' = NoLocals.memo_list
    /\ latest_updated_at' = NoLocals.latest_updated_at
    /\ slug_map' = NoLocals.slug_map
    /\ idx' = NoLocals.idx
    /\ page_id' = NoLocals.page_id
    /\ calls' = NoLocals.calls
    /\ UNCHANGED <<source, dest, full_update, runs, edits, unchanged, succ_run,
                   after_ok, normalized>>

\* a collaborator call is about to be issued
CallPending ==
    \/ pc \in {"paging", "query", "insert_upload", "update_clear", "update_upload"}
    \/ AtMemo /\ Branch # "skip"

\* the exception of a per-memo call caught and the loop continued with the next memo
Fail_SkipsFailedMemo ==
    /\ CallPending
    /\ IF pc \in {"paging", "query"}
       THEN /\ pc' = "idle"
            /\ last_exit' = "error"
            /\ memo_list' = NoLocals.memo_list
            /\ latest_updated_at' = NoLocals.latest_updated_at
            /\ slug_map' = NoLocals.slug_map
            /\ idx' = NoLocals.idx
            /\ page_id' = NoLocals.page_id
            /\ calls' = NoLocals.calls
       ELSE /\ pc' = "loop"
            /\ idx' = idx + 1
            /\ UNCHANGED <<memo_list, latest_updated_at, slug_map, page_id, calls,
                           last_exit>>
    /\ UNCHANGED <<source, dest, full_update, runs, edits, unchanged, succ_run,
                   after_ok, normalized>>

\* the pending call raises (or the process is killed before it): nothing catches
\* it, the run ends there
Fail ==
    /\ CallPending
    /\ pc' = "idle"
    /\ last_exit' = "error"
    /\ memo_list' = NoLocals.memo_list
    /\ latest_updated_at' = NoLocals.latest_updated_at
    /\ slug_map' = NoLocals.slug_map
    /\ idx' = NoLocals.idx
    /\ page_id' = NoLocals.page_id
    /\ calls' = NoLocals.calls
    /\ UNCHANGED <<source, dest, full_update, runs, edits, unchanged, succ_run,
                   after_ok, normalized>>

\* the user edits a memo in the source, between runs or between two page requests
EditMemo ==
    /\ pc \in {"idle", "paging"}
    /\ edits < MaxEdits
    /\ \E k \in 1..Len(source), ts \in TimeStamps :
          /\ Mktime(ts) > Mktime(source[k].updated_at)
          /\ source' = InsertSorted(RemoveAt(source, k),
                           [source[k] EXCEPT !.updated_at = ts,
                                             !.content = NextRevision(@)])
    /\ edits' = edits + 1
    /\ unchanged' = FALSE
    /\ succ_run' = FALSE
    /\ after_ok' = FALSE
    /\ UNCHANGED <<dest, pc, memo_list, latest_updated_at, slug_map, full_update, idx,
                   page_id, calls, last_exit, runs, normalized>>

Next ==
    \/ StartRun
    \/ FetchPage
    \/ BuildIndex
    \/ SkipMemo
    \/ InsertCreate
    \/ InsertUpload
    \/ UpdateProps
    \/ UpdateClear
    \/ UpdateUpload
    \/ Finish
    \/ Fail
    \/ EditMemo

Spec == Init /\ [][Next]_vars

\* ------------------------------------------------------- what the claims read
\* the for loop of sync_to_notion has been reached
InLoop == pc \in {"loop", "insert_upload", "update_clear", "update_upload"}

\* the write calls the current run issued for entry i of memo_list
OpsOf(i) == SelectSeq(calls, LAMBDA c : c.op \in WriteOps /\ c.i = i)

\* entries of memo_list the for loop is done with
Processed == IF InLoop THEN 1..(idx - 1) ELSE {}

Indexed(i) == memo_list[i].slug \in DOMAIN slug_map

Eligible(i) ==
    full_update \/ IsWithinNDays(memo_list[i].updated_at, DefaultIntervalDay)

Occurrences(m, s) == Cardinality({k \in 1..Len(s) : s[k] = m})

Range(s) == {s[k] : k \in 1..Len(s)}

\* C1: no two destination records created by the sync carry the same memo
\* identifier (the missing or empty identifier included).
C1_OneRecordPerIdentifier ==
    \A h1, h2 \in DOMAIN dest :
        (dest[h1].by = "sync" /\ dest[h2].by = "sync" /\ dest[h1].slug = dest[h2].slug)
            => h1 = h2

\* C2: a run that follows a completed run, with the source unchanged and full
\* update off in both, issues no destination write.
C2_SecondRunWritesNothing ==
    (succ_run /\ ~full_update) => \A k \in 1..Len(calls) : calls[k].op \notin WriteOps

\* C3: once the pagination loop has ended (and the source was not edited
\* meanwhile), memo_list holds every memo of the source exactly once.
C3_FullMemoSet ==
    (pc \notin {"idle", "paging"} /\ unchanged) =>
        \A m \in Range(source) \cup Range(memo_list) :
            Occurrences(m, memo_list) = Occurrences(m, source)

\* C4: a processed memo whose slug is not in slug_map got exactly one create,
\* carrying its slug, then exactly one upload to the handle the create returned,
\* and no update or clear.
C4_NotFoundCreatesThenUploads ==
    \A i \in Processed :
        ~Indexed(i) =>
            LET ops == OpsOf(i)
            IN  /\ Len(ops) = 2
                /\ ops[1].op = "create"
                /\ ops[1].slug = memo_list[i].slug
                /\ ops[1].h \in DOMAIN dest
                /\ ops[1].h \notin {slug_map[k] : k \in DOMAIN slug_map}
                /\ ops[2].op = "upload"
                /\ ops[2].h = ops[1].h

C4_Witness ==
    /\ pc = "loop"
    /\ idx = 2
    /\ memo_list[1].slug = "a"
    /\ ~Indexed(1)
    /\ Len(OpsOf(1)) = 2

\* C5: a processed memo whose slug is in slug_map, with full update off and
\* updated_at outside the freshness window, got no write at all.
C5_StaleFoundIsSkipped ==
    \A i \in Processed :
        (Indexed(i) /\ ~full_update
           /\ ~IsWithinNDays(memo_list[i].updated_at, DefaultIntervalDay))
            => OpsOf(i) = <<>>

C5_Witness ==
    /\ pc = "loop"
    /\ idx = 3
    /\ Indexed(1)
    /\ ~full_update
    /\ ~IsWithinNDays(memo_list[1].updated_at, DefaultIntervalDay)
    /\ OpsOf(1) = <<>>
    /\ OpsOf(2) # <<>>

\* C6: a memo whose slug is in slug_map and that is refresh-eligible gets, on
\* the handle slug_map holds for it, one update, then one clear, then one
\* upload, and nothing else; while it is in progress the calls issued so far
\* are a prefix of that sequence.
UpdateSequence(i) ==
    LET h == slug_map[memo_list[i].slug]
    IN  <<CallUpdate(i, h), CallClear(i, h),
          CallUpload(i, h, SafeMdAndText(memo_list[i])[1])>>

C6_FoundEligibleUpdatesClearsUploads ==
    /\ \A i \in Processed :
           (Indexed(i) /\ Eligible(i)) => OpsOf(i) = UpdateSequence(i)
    /\ (InLoop /\ idx <= Len(memo_list) /\ Indexed(idx) /\ Eligible(idx)) =>
           /\ Len(OpsOf(idx)) <= 2
           /\ OpsOf(idx) = SubSeq(UpdateSequence(idx), 1, Len(OpsOf(idx)))

C6_Witness ==
    /\ pc = "loop"
    /\ idx = 2
    /\ Indexed(1)
    /\ ~full_update
    /\ Len(OpsOf(1)) = 3
    /\ dest[slug_map[memo_list[1].slug]].body = <<Markdownify(<<"v1">>)>>

\* C7: no step changes the slug or the created_at of a record that exists.
C7_UpdateKeepsSlugAndCreatedAt ==
    [][\A h \in DOMAIN dest :
          h \in DOMAIN dest' =>
              /\ dest'[h].slug = dest[h].slug
              /\ dest'[h].created_at = dest[h].created_at]_vars

C7_Witness ==
    /\ pc = "update_clear"
    /\ dest[page_id].by = "sync"
    /\ dest[page_id].title = Html2Text(<<"v1">>)
    /\ dest[page_id].updated_at # dest[page_id].created_at
    /\ dest[page_id].created_at = CreatedAt
    /\ dest[page_id].slug = memo_list[idx].slug

\* C8: a record handle present in a state is present in the next one.
C8_NoRecordDeleted == [][DOMAIN dest \subseteq DOMAIN dest']_vars

C8_Witness ==
    /\ pc = "idle"
    /\ last_exit = "error"
    /\ runs = MaxRuns
    /\ \E h1, h2 \in DOMAIN dest :
          /\ h1 # h2
          /\ dest[h1].by = "pre"
          /\ dest[h1].body = <<>>
          /\ dest[h2].by = "sync"

\* C9: whenever no run is in progress (none started, or the latest one
\* completed or was aborted), each record's title and content come from the
\* same revision of a memo.
C9_RecordsConsistentAfterRun ==
    pc = "idle" =>
        \A h \in DOMAIN dest :
            \E v \in Range(Revisions) :
                /\ dest[h].title = Html2Text(<<v>>)
                /\ dest[h].body = <<Markdownify(<<v>>)>>

\* C10: the calls of a run are page requests, then one query_all that directly
\* follows a page request that returned the empty page, then writes.
C10_PagesThenQueryThenWrites ==
    /\ \A k \in 1..Len(calls) :
           calls[k].op \in WriteOps =>
               \E q \in 1..(k - 1) : calls[q].op = "query_all"
    /\ \A q \in 1..Len(calls) :
           calls[q].op = "query_all" =>
               /\ q > 1
               /\ calls[q - 1].op = "get_memo_list"
               /\ calls[q - 1].n = 0
               /\ \A j \in 1..(q - 1) : calls[j].op = "get_memo_list"
               /\ \A j \in (q + 1)..Len(calls) : calls[j].op \in WriteOps

C10_Witness ==
    /\ Len(calls) >= 6
    /\ calls[1].op = "get_memo_list" /\ calls[1].n > 0
    /\ calls[2].op = "get_memo_list" /\ calls[2].n > 0
    /\ calls[Len(calls)].op = "upload"
    /\ calls[Len(calls)].i = 2

\* between two runs no collaborator is called and the destination is left alone
IdleIssuesNothing == pc = "idle" => (dest' = dest /\ calls' = <<>>)

\* C11: while the run is paginating, nothing but page requests has been issued
\* and no step changes the destination; a step that ends the run there records
\* an error and issues nothing; a page whose last updated_at strptime rejects
\* ends the run at that request; no call follows until another run starts.
C11_PagingFailureIsFatal ==
    [][/\ pc = "paging" =>
            /\ dest' = dest
            /\ \A k \in 1..Len(calls) : calls[k].op = "get_memo_list"
            /\ pc' = "idle" =>
                   /\ last_exit' \in {"error", "ValueError"}
                   /\ runs' = runs
                   /\ calls' = <<>>
            /\ LET page == GetMemoList(source, latest_updated_at)
               IN  (source' = source /\ page # <<>>
                      /\ ~Parsable(page[Len(page)].updated_at))
                       => (pc' = "idle" /\ last_exit' \in {"error", "ValueError"})
       /\ IdleIssuesNothing]_vars

C11_Witness ==
    /\ pc = "idle"
    /\ last_exit = "ValueError"
    /\ runs = 1
    /\ Len(source) = 2
    /\ source[1].slug = "a"
    /\ Parsable(source[1].updated_at)
    /\ ~Parsable(source[2].updated_at)
    /\ DOMAIN dest # {}
    /\ \A h \in DOMAIN dest : dest[h].by = "pre" /\ dest[h].slug = "b"

\* C12: in the for loop, a step in which the pending call does not complete ends
\* the run with an error, with the destination as the earlier calls left it;
\* the entries after the current one have no write; no call follows until
\* another run starts.
C12_FailedWriteAbortsRun ==
    [][/\ (InLoop /\ CallPending /\ Len(calls') # Len(calls) + 1) =>
            /\ pc' = "idle"
            /\ last_exit' = "error"
            /\ dest' = dest
            /\ runs' = runs
            /\ calls' = <<>>
       /\ InLoop => \A j \in (idx + 1)..Len(memo_list) : OpsOf(j) = <<>>
       /\ IdleIssuesNothing]_vars

C12_Witness ==
    /\ pc = "idle"
    /\ last_exit = "error"
    /\ runs = 1
    /\ Len(source) = 2
    /\ source[1].slug = "a" /\ source[2].slug = "b"
    /\ source[1].updated_at = <<1, 0>> /\ source[2].updated_at = <<9, 0>>
    /\ \A h \in DOMAIN dest : dest[h].slug = "a"
    /\ \E h \in DOMAIN dest :
          dest[h].by = "sync" /\ dest[h].body = <<Markdownify(source[1].content)>>

\* the run is one thread that goes on to its next page request
LiveSpec == Spec /\ WF_vars(FetchPage)

\* no page request follows an empty page, the loop goes on after every page
\* that is not empty, and it is left for query_all only after an empty page
PagingStopsAtFirstEmptyPage ==
    /\ \A k \in 1..Len(calls) :
           (calls[k].op = "get_memo_list" /\ calls[k].n = 0) =>
               \A j \in (k + 1)..Len(calls) : calls[j].op # "get_memo_list"
    /\ pc = "paging" => \A k \in 1..Len(calls) : calls[k].n > 0
    /\ pc = "query" =>
           /\ calls # <<>>
           /\ calls[Len(calls)].op = "get_memo_list"
           /\ calls[Len(calls)].n = 0

\* C13: the pagination loop ends exactly at the first empty page, and a run that
\* is paginating eventually leaves the loop: it reaches query_all, unless a
\* request raised and ended the run.
C13_PagingEndsAtEmptyPageAndTerminates ==
    /\ []PagingStopsAtFirstEmptyPage
    /\ (pc = "paging") ~> (pc = "query" \/ pc = "idle")

C13_Witness ==
    /\ pc = "query"
    /\ Len(calls) = 3
    /\ Len(memo_list) = 2
    /\ calls[1].n = 1 /\ calls[2].n = 1 /\ calls[3].n = 0

\* query_all has returned and no write has followed it yet
JustIndexed == pc = "loop" /\ calls[Len(calls)].op = "query_all"

\* each identifier that is not empty, with the last record of the scan carrying it
ReferenceIndex(d) ==
    LET ids == {d[h].slug : h \in DOMAIN d} \ {""}
    IN  [k \in ids |-> Max({h \in DOMAIN d : d[h].slug = k})]

\* C14: right after the index is built it equals the reference mapping: the
\* identifiers of the scan that are not empty, each with the handle of the last
\* record carrying it; records without identifier are not in it.
C14_IndexKeepsLastSeenHandle ==
    JustIndexed => slug_map = ReferenceIndex(dest)

C14_Witness ==
    /\ JustIndexed
    /\ \E h1, h2, h3 \in DOMAIN dest :
          /\ h1 < h2
          /\ dest[h1].slug = "a" /\ dest[h2].slug = "a"
          /\ dest[h3].slug = ""
          /\ slug_map = [k \in {"a"} |-> h2]

\* the for loop has gone through the whole list and the run has not returned yet
LoopDone == pc = "loop" /\ idx > Len(memo_list)

\* the number of records query_all returned to this run
Scanned == LET k == CHOOSE k \in 1..Len(calls) : calls[k].op = "query_all"
           IN  calls[k].n

\* the records the destination holds beyond those of the scan
Gained == {h \in DOMAIN dest : h > Scanned}

PairwiseDistinctSlugs ==
    \A i, j \in 1..Len(memo_list) : i # j => memo_list[i].slug # memo_list[j].slug

NoneIndexed == \A i \in 1..Len(memo_list) : ~Indexed(i)

\* C15: when the loop has gone through n memos with pairwise distinct
\* identifiers, none of them in the index, the destination holds exactly n
\* records beyond those scanned, and each memo has one of them, created for it
\* and carrying its identifier.
C15_DistinctMemosGainOneRecordEach ==
    (LoopDone /\ PairwiseDistinctSlugs /\ NoneIndexed) =>
        /\ Cardinality(DOMAIN dest) = Scanned + Len(memo_list)
        /\ Cardinality(Gained) = Len(memo_list)
        /\ \A i \in 1..Len(memo_list) :
              /\ Cardinality({h \in Gained : dest[h].slug = memo_list[i].slug}) = 1
              /\ \E h \in Gained :
                    /\ dest[h].slug = memo_list[i].slug
                    /\ CallCreate(i, h, memo_list[i].slug) \in Range(calls)

C15_Witness ==
    /\ LoopDone /\ PairwiseDistinctSlugs /\ NoneIndexed
    /\ Len(memo_list) = 2
    /\ Scanned = 1
    /\ Cardinality(DOMAIN dest) = 3
    /\ {dest[h].slug : h \in Gained} = {"a", "b"}

Stale(i) == ~IsWithinNDays(memo_list[i].updated_at, DefaultIntervalDay)

\* C16: with FULL_UPDATE on, every list entry the loop has passed whose
\* identifier is in the index has exactly the operations update, clear, upload
\* on its indexed record, whatever its age: none is skipped for staleness.
C16_FullUpdateNeverSkips ==
    (InLoop /\ full_update) =>
        \A i \in Processed : Indexed(i) => OpsOf(i) = UpdateSequence(i)

C16_Witness ==
    /\ InLoop /\ full_update
    /\ \E i \in Processed :
          /\ Indexed(i)
          /\ Stale(i)
          /\ Parsable(memo_list[i].updated_at)
          /\ OpsOf(i) = UpdateSequence(i)

\* ------------------------------------------------- _safe_md_and_text alone
FileTypes == {"image", "audio"}
FileUrls == {"", "u1", "u2"}
FileEntries ==
    {[dict |-> TRUE, type |-> t, url |-> u] : t \in FileTypes, u \in FileUrls}
        \cup {NotADict}

FileLists == UNION {[1..n -> FileEntries] : n \in 0..MaxFiles}

NormMemos ==
    {[slug |-> "a", created_at |-> CreatedAt, updated_at |-> CreatedAt,
      content |-> content, files |-> files] :
        content \in {NoContent, <<>>, <<Revisions[1]>>}, files \in FileLists}

\* a memo is handed to _safe_md_and_text
NormInit ==
    /\ source \in {<<memo>> : memo \in NormMemos}
    /\ dest = <<>>
    /\ pc = "normalize"
    /\ memo_list = NoLocals.memo_list
    /\ latest_updated_at = NoLocals.latest_updated_at
    /\ slug_map = NoLocals.slug_map
    /\ idx = NoLocals.idx
    /\ page_id = NoLocals.page_id
    /\ calls = NoLocals.calls
    /\ full_update = FALSE
    /\ last_exit = "none"
    /\ runs = 0
    /\ edits = 0
    /\ unchanged = TRUE
    /\ succ_run = FALSE
    /\ after_ok = FALSE
    /\ normalized = <<>>

\* _safe_md_and_text returns
Normalize ==
    /\ pc = "normalize"
    /\ normalized' = SafeMdAndText(source[1])
    /\ pc' = "returned"
    /\ last_exit' = "ok"
    /\ UNCHANGED <<source, dest, memo_list, latest_updated_at, slug_map,
                   full_update, idx, page_id, calls, runs, edits, unchanged,
                   succ_run, after_ok>>

NormNext == Normalize

NormSpec == NormInit /\ [][NormNext]_vars

\* the places in files of the entries that qualify: image type, a url
Qualifying(files) ==
    {k \in 1..Len(files) :
        files[k].dict /\ files[k].type = "image" /\ files[k].url # ""}

\* the place in files of the j-th qualifying entry
NthQualifying(files, j) ==
    CHOOSE k \in Qualifying(files) :
        Cardinality({q \in Qualifying(files) : q <= k}) = j

\* the urls of the qualifying entries in their order, a newline between two
ReferenceText(files) ==
    LET n == Cardinality(Qualifying(files))
    IN  IF n = 0 THEN <<>>
        ELSE [p \in 1..(2 * n - 1) |->
                 IF p % 2 = 1 THEN files[NthQualifying(files, (p + 1) \div 2)].url
                 ELSE "\n"]

\* C17: for a memo whose content is None or empty, _safe_md_and_text returns,
\* and both returned texts are the urls of the files entries of type image
\* with a url, in their order, joined by newlines: the empty text when no
\* entry qualifies.
C17_EmptyContentGivesImageUrls ==
    (pc = "returned" /\ Falsy(source[1].content)) =>
        /\ last_exit = "ok"
        /\ normalized = <<ReferenceText(source[1].files),
                          ReferenceText(source[1].files)>>
        /\ Qualifying(source[1].files) = {} => normalized = <<<<>>, <<>>>>

C17_Witness ==
    /\ pc = "returned"
    /\ source[1].content = NoContent
    /\ Len(source[1].files) = 2
    /\ source[1].files[1].url = "u2" /\ source[1].files[2].url = "u1"
    /\ normalized = <<<<"u2", "\n", "u1">>, <<"u2", "\n", "u1">>>>

\* the places in the log of the page requests of the current run
PageCalls == {k \in 1..Len(calls) : calls[k].op = "get_memo_list"}

\* the number of memos the page requests up to place k returned
RECURSIVE Fetched(_)
Fetched(k) ==
    IF k = 0 THEN 0
    ELSE Fetched(k - 1) + (IF k \in PageCalls THEN calls[k].n ELSE 0)

\* C18: the first page request of a run carries the cursor 0; each later one
\* carries the updated_at, in epoch seconds, of the last memo of the page
\* before it, and a greater cursor than the request before it.
C18_CursorFollowsLastMemoAndIncreases ==
    \A k \in PageCalls :
        IF k = 1 THEN calls[k].cursor = 0
        ELSE /\ (k - 1) \in PageCalls
             /\ calls[k - 1].n > 0
             /\ calls[k].cursor = Mktime(memo_list[Fetched(k - 1)].updated_at)
             /\ calls[k].cursor > calls[k - 1].cursor

C18_Witness ==
    /\ PageCalls = 1..3
    /\ calls[1].cursor = 0
    /\ calls[2].cursor = Mktime(<<1, 0>>)
    /\ calls[3].cursor = Mktime(<<9, 0>>)

\* the places in the log of the write calls of the current run
WriteCalls == {k \in 1..Len(calls) : calls[k].op \in WriteOps}

\* a page is appended to the list as returned; nothing else touches the list
\* while the run goes on
ListIsPagesInOrder ==
    LET page_kept == pc = "paging" /\ pc' = "paging" /\ calls' # calls
    IN  /\ page_kept =>
               memo_list' = memo_list \o GetMemoList(source, latest_updated_at)
        /\ (~page_kept /\ pc' # "idle") => memo_list' = memo_list

\* the loop goes from an entry to the next one only
EntriesInOrder ==
    (InLoop /\ pc' # "idle") => (idx' = idx \/ idx' = idx + 1)

\* writes are logged in entry order, for entries the loop has reached
WritesInEntryOrder ==
    /\ \A k, l \in WriteCalls : k < l => calls[k].i <= calls[l].i
    /\ \A k \in WriteCalls : InLoop /\ calls[k].i \in 1..Min({idx, Len(memo_list)})

\* an entry has at most one create or update
NoEntryTwice ==
    \A i \in 1..Len(memo_list) :
        Cardinality({k \in WriteCalls :
                        calls[k].i = i /\ calls[k].op \in {"create", "update"}}) <= 1

\* when the loop is through, only skipped entries have no write
NoEntryLeftOut ==
    LoopDone =>
        \A i \in 1..Len(memo_list) :
            OpsOf(i) = <<>> => (Indexed(i) /\ ~Eligible(i))

CreateCalls == {k \in 1..Len(calls) : calls[k].op = "create"}

\* in a run that follows a completed run over an unchanged source, every
\* create is for a memo without identifier
SecondRunCreatesOnlyWithoutSlug ==
    after_ok => \A k \in CreateCalls : memo_list[calls[k].i].slug = ""

\* in such a run the destination holds no more records than query_all returned
SecondRunDoesNotGrow ==
    (after_ok /\ InLoop) => Cardinality(DOMAIN dest) = Scanned

\* C20: a run that follows a completed run over an unchanged source creates no
\* record for a memo whose identifier is not empty, and the number of
\* destination records does not grow during it.
C20_SecondRunCreatesNothing ==
    SecondRunCreatesOnlyWithoutSlug /\ SecondRunDoesNotGrow

====
